---- MODULE Spec2Model ----
(***************************************************************************)
(* Model of simply-s3's upload core: ReadStreamHandler (the splitter of a  *)
(* readable stream into chunks of config.MAX_BYTES bytes) and              *)
(* S3.putS3Stream (single-shot put or batched multi-part upload), together *)
(* with the Node.js readable stream that feeds the handler, the remote     *)
(* store that answers the S3 calls, and the process-level                  *)
(* 'unhandledRejection' handler of bin/simplys3.js.                        *)
(*                                                                         *)
(* One action is one turn of the Node.js event loop: an I/O callback (a    *)
(* 'data' or 'end' event of the stream, the callback of an S3 request)     *)
(* together with every promise continuation it triggers, up to the next    *)
(* point where putS3Stream waits for I/O.                                  *)
(***************************************************************************)
EXTENDS Integers, Sequences, FiniteSets, TLC

\* ------------------------------------------------------------- bounds
\* Longest source stream, in bytes.
MaxSourceLen == 6
\* Largest number of bytes one 'data' event carries.
MaxSegLen == 3
\* Largest value of config.MAX_BYTES that is explored (1..MaxChunkBytes).
MaxChunkBytes == 2
\* Largest value of config.MAX_CONCURRENT that is explored.
MaxConcurrent == 3
\* Longest source of a file that the upload action uploads.
ExecMaxSourceLen == 2
\* The number of getNextChunk calls of a caller other than putS3Stream.
MaxPulls == 8

\* The upload ids and ETags the remote store may answer with.
UploadIds == {"u1", "u2"}
ETags == {"t1", "t2"}

VARIABLES
  config,     \* s3-config.js: [MAX_BYTES, MAX_CONCURRENT]
  source,     \* the bytes of the file behind the read stream
  handlerInstalled, \* process.on('unhandledRejection') of bin/simplys3.js is in place
  stream,     \* the readable stream
  handler,    \* the ReadStreamHandler: [max, chunkList, closed]
  pulls,      \* result of every getNextChunk call so far, in call order
  up,         \* the frame of putS3Stream: its position and its locals
  remote,     \* the calls the remote store has received and its answers
  proc,       \* "running", "crashed" (uncaught exception) or "exited" (process.exit)
  args,       \* args.opts of the command line: [n, nocli, region, max]
  env,        \* process.env: the three AWS variables
  exec,       \* the frame of the upload action's exec, and what main does with it
  peer        \* a second file that exec uploads at the same time, if there is one

vars == <<config, source, handlerInstalled, stream, handler, pulls, up, remote, proc,
          args, env, exec, peer>>

\* ------------------------------------------------------------ values
Min(a, b) == IF a <= b THEN a ELSE b

\* The source bytes: byte i of a source of n bytes is i, so a lost, repeated
\* or misplaced byte is visible in any concatenation.
Bytes(n) == [i \in 1..n |-> i]

\* What a getNextChunk call gave: still pending, null, or a buffer.
Pending == [kind |-> "pending", bytes |-> <<>>]
Null == [kind |-> "null", bytes |-> <<>>]
Chunk(b) == [kind |-> "chunk", bytes |-> b]

\* Errors, told apart by the call that raised them.
NoErr == [op |-> "none", n |-> 0]
Err(op, n) == [op |-> op, n |-> n]

Last(s) == s[Len(s)]
Range(f) == {f[i] : i \in DOMAIN f}

RECURSIVE SumLen(_)
SumLen(list) == IF list = <<>> THEN 0 ELSE Len(Head(list)) + SumLen(Tail(list))

\* get currentChunkSize(): the sum of the lengths of the buffers of chunkList.
currentChunkSize(h) == SumLen(h.chunkList)

\* Buffer.concat(list)
RECURSIVE BufferConcat(_)
BufferConcat(list) == IF list = <<>> THEN <<>> ELSE Head(list) \o BufferConcat(Tail(list))

\* buf.slice(from) / buf.slice(0, to), 0-based as in the source.
SliceTo(buf, to) == SubSeq(buf, 1, Min(to, Len(buf)))
SliceFrom(buf, from) == SubSeq(buf, from + 1, Len(buf))

\* The state that one event-loop turn threads through the code it runs.
World == [stream |-> stream, handler |-> handler, pulls |-> pulls, up |-> up,
          remote |-> remote, proc |-> proc]

Set(w) ==
  /\ stream' = w.stream
  /\ handler' = w.handler
  /\ pulls' = w.pulls
  /\ up' = w.up
  /\ remote' = w.remote
  /\ proc' = w.proc
  /\ UNCHANGED <<config, source, handlerInstalled, args, env, exec, peer>>

\* ------------------------------------------------- the remote store
\* this.s3.<call>(params, callback): the request is recorded when it is
\* issued; its callback is a later event-loop turn.
SendPutObject(w, body) ==
  [w EXCEPT !.remote.putCalls = Append(@, body)]

SendCreateMultipartUpload(w) ==
  [w EXCEPT !.remote.createCalls = @ + 1]

\* uploadPart(body, bucket, key, part, uploadId): the returned promise is
\* known by the index of the request in remote.uploadCalls.
SendUploadPart(w, body, part, uploadId) ==
  [w EXCEPT !.remote.uploadCalls =
              Append(@, [Body |-> body, PartNumber |-> part, UploadId |-> uploadId]),
            !.remote.status = Append(@, "inflight"),
            !.remote.etag = Append(@, "none")]

SendCompleteMultipartUpload(w, parts, uploadId) ==
  [w EXCEPT !.remote.completeCalls = Append(@, [Parts |-> parts, UploadId |-> uploadId])]

SendAbortMultipartUpload(w, uploadId) ==
  [w EXCEPT !.remote.abortCalls = Append(@, uploadId)]

\* ------------------------------------------------------ putS3Stream
Reject(w, e) == [w EXCEPT !.up.pc = "done", !.up.outcome = [state |-> "rejected", err |-> e]]
Fulfil(w) == [w EXCEPT !.up.pc = "done", !.up.outcome = [state |-> "resolved", err |-> NoErr]]

\* The promises of a batch that have rejected, and whether all have resolved.
Failed(w, promises) == {k \in 1..Len(promises) : w.remote.status[promises[k]] = "failed"}
AllOk(w, promises) == \A k \in 1..Len(promises) : w.remote.status[promises[k]] = "ok"

\* A Promise.all that gave the values in the order the requests finished.
PromiseAll_CompletionOrder(rem, promises) ==
  LET InBatch(i) == \E k \in 1..Len(promises) : promises[k] = i
      done == SelectSeq(rem.settled, InBatch)
  IN [k \in 1..Len(done) |-> [ETag |-> rem.etag[done[k]]]]

\* Promise.all(uploadPromises), once every promise has resolved: the values in
\* the order of the array, whatever the order in which the requests finished.
PromiseAll(rem, promises) ==
  [k \in 1..Len(promises) |-> [ETag |-> rem.etag[promises[k]]]]

\* parts.map((part, index) => { part.PartNumber = index + 1; ... })
NumberParts(parts) ==
  [k \in 1..Len(parts) |-> [ETag |-> parts[k].ETag, PartNumber |-> (k - 1) + 1]]

\* catch (e) { await this.abortMultipartUpload(...); throw e; }
Catch(w, e) ==
  [SendAbortMultipartUpload(w, w.up.initializationData.UploadId)
     EXCEPT !.up.pc = "abort", !.up.e = e]

\* Lines 270-286: number the parts and call completeMultipartUpload.
Finish(w) ==
  LET parts == NumberParts(w.up.parts)
  IN [SendCompleteMultipartUpload(w, parts, w.up.uploadId)
        EXCEPT !.up.pc = "complete", !.up.parts = parts]

\* parts = parts.concat(await Promise.all(uploadPromises)) with every promise
\* of the batch resolved.
ConcatBatch(w) ==
  [w EXCEPT !.up.parts = @ \o PromiseAll(w.remote, w.up.uploadPromises)]

\* Promise.all rejects with the reason of the first promise to reject; among
\* promises that had rejected before the call, the first of the array.
FirstFailed(w) ==
  LET f == Failed(w, w.up.uploadPromises)
      k == CHOOSE k \in f : \A j \in f : k <= j
  IN Err("uploadPart", w.up.uploadPromises[k])

\* Promise.all(uploadPromises) is called (line 253 or 267): up.batches keeps
\* the array of every such call.
CallPromiseAll(w) == [w EXCEPT !.up.batches = Append(@, w.up.uploadPromises)]

\* An end of the loop that goes to completeMultipartUpload without the
\* Promise.all of the last batch.
LoopEnd_NoJoin(w) == Finish(w)

\* Lines 260-286: the loop is over (getNextChunk gave null).
LoopEnd(w) ==
  IF Len(w.up.uploadPromises) > 0
  THEN LET w1 == CallPromiseAll(w)
       IN IF Failed(w1, w1.up.uploadPromises) # {} THEN Catch(w1, FirstFailed(w1))
          ELSE IF AllOk(w1, w1.up.uploadPromises) THEN Finish(ConcatBatch(w1))
          ELSE [w1 EXCEPT !.up.pc = "finalJoin"]
  ELSE Finish(w)

\* ------------------------------------------------ ReadStreamHandler
\* getNextChunk(), up to the point where it returns its promise: null at once
\* when the handler is closed, otherwise onData and onEnd are attached and the
\* stream is resumed.
getNextChunk(w) ==
  IF w.handler.closed
  THEN [w EXCEPT !.pulls = Append(@, Null)]
  ELSE LET id == Len(w.pulls) + 1
       IN [w EXCEPT !.pulls = Append(@, Pending),
                    !.stream.dataL = @ \cup {id},
                    !.stream.endL = @ \cup {id},
                    !.stream.flowing = TRUE]

\* ------------------------------------------- putS3Stream, the loop
\* Line 257 (and what follows it when the call returns null at once).
PullInLoop(w) ==
  LET w1 == getNextChunk(w)
  IN IF Last(w1.pulls) = Pending
     THEN [w1 EXCEPT !.up.pc = "pull", !.up.chunk = Pending]
     ELSE LoopEnd([w1 EXCEPT !.up.chunk = Null])

\* Lines 253-257, once Promise.all has resolved.
AfterBatch(w) ==
  PullInLoop([ConcatBatch(w) EXCEPT !.up.uploadPromises = <<>>])

\* A batch that is joined only once it holds more than MAX_CONCURRENT promises.
BatchFull_OneMore(uploadPromises) == Len(uploadPromises) > config.MAX_CONCURRENT

\* Line 245: the batch is full.
BatchFull(uploadPromises) == Len(uploadPromises) >= config.MAX_CONCURRENT

\* A part number that counts the promises of the current batch.
DispatchPartNumber_PerBatch(u) == Len(u.uploadPromises) + 1

\* Line 242: the part number handed to uploadPart is the partNumber counter.
DispatchPartNumber(u) == u.partNumber

\* Lines 242-257: one turn of the while loop with a chunk in hand.
LoopBody(w) ==
  LET sent == SendUploadPart(w, w.up.chunk.bytes, DispatchPartNumber(w.up), w.up.uploadId)
      w1 == [sent EXCEPT !.up.uploadPromises = Append(@, Len(sent.remote.uploadCalls)),
                         !.up.partNumber = @ + 1]
      w2 == CallPromiseAll(w1)
  IN IF BatchFull(w1.up.uploadPromises)
     THEN IF Failed(w2, w2.up.uploadPromises) # {} THEN Catch(w2, FirstFailed(w2))
          ELSE IF AllOk(w2, w2.up.uploadPromises) THEN AfterBatch(w2)
          ELSE [w2 EXCEPT !.up.pc = "join"]
     ELSE PullInLoop(w1)

\* A decision that also takes a first chunk of exactly max bytes as the whole file.
SingleShot_Inclusive(chunk, max) == Len(chunk.bytes) <= max

\* Line 224: the whole file is within the first chunk.
SingleShot(chunk, max) == Len(chunk.bytes) < max

\* Lines 224-234, with the first chunk in hand. chunk.length of null throws a
\* TypeError, which rejects the promise of the async function.
StrategyDecision(w) ==
  IF w.up.chunk = Null THEN Reject(w, Err("TypeError", 0))
  ELSE IF SingleShot(w.up.chunk, w.handler.max)
  THEN [SendPutObject(w, w.up.chunk.bytes) EXCEPT !.up.pc = "put"]
  ELSE [SendCreateMultipartUpload(w) EXCEPT !.up.pc = "create"]

\* resolve(value) of the pending getNextChunk call, and the continuation of
\* the await on it (line 223 or line 257); a call that was not made by
\* putS3Stream has no continuation here.
Resolve(w, id, value) ==
  LET w0 == [w EXCEPT !.pulls[id] = value]
      w1 == [w0 EXCEPT !.up.chunk = value]
  IN IF w.up.pc = "init" THEN w0
     ELSE IF w.up.pc = "pullFirst" THEN StrategyDecision(w1)
     ELSE IF value = Null THEN LoopEnd(w1)
     ELSE LoopBody(w1)

\* An onEnd without the "no data available" case.
NoDataAvailable_Never(h) == FALSE

\* Line 124: nothing was accumulated when the stream ended.
NoDataAvailable(h) == Len(h.chunkList) = 0

\* An unshift that lets go of the bytes beyond the chunk boundary.
unshift_Discard(unread, buf) == unread

\* this.stream.unshift(buf) (line 108): buf is what the stream gives next.
unshift(unread, buf) == buf \o unread

\* onData(chunk) of call id (lines 74-114).
onData(w, id, chunk) ==
  LET h == [w.handler EXCEPT !.chunkList = Append(@, chunk)]
      concatBuff == BufferConcat(h.chunkList)
      unlisten == [w EXCEPT !.stream.dataL = @ \ {id}, !.stream.endL = @ \ {id},
                            !.handler.chunkList = <<>>]
  IN IF currentChunkSize(h) = h.max
     THEN Resolve(unlisten, id, Chunk(concatBuff))
     ELSE IF currentChunkSize(h) <= h.max
     THEN [w EXCEPT !.handler = h]
     ELSE LET retBuffer == SliceTo(concatBuff, h.max)
              unshiftBuff == SliceFrom(concatBuff, h.max)
          IN Resolve([unlisten EXCEPT !.stream.flowing = FALSE,
                                      !.stream.unread = unshift(@, unshiftBuff)],
                     id, Chunk(retBuffer))

\* An onEnd that resolves and leaves both listeners of the call attached.
onEnd_KeepListeners(w, id) ==
  IF NoDataAvailable(w.handler)
  THEN Resolve(w, id, Null)
  ELSE Resolve([w EXCEPT !.handler.chunkList = <<>>], id,
               Chunk(BufferConcat(w.handler.chunkList)))

\* onEnd() of call id (lines 118-136).
onEnd(w, id) ==
  LET unlisten == [w EXCEPT !.stream.dataL = @ \ {id}, !.stream.endL = @ \ {id}]
  IN IF NoDataAvailable(w.handler)
     THEN Resolve(unlisten, id, Null)
     ELSE Resolve([unlisten EXCEPT !.handler.chunkList = <<>>], id,
                  Chunk(BufferConcat(w.handler.chunkList)))

\* An 'end' listener that destroys the stream and leaves closed as it was.
onStreamEnd_NotClosed(w) == [w EXCEPT !.stream.destroyed = TRUE]

\* The 'end' listener of the constructor (lines 43-47).
onStreamEnd(w) == [w EXCEPT !.stream.destroyed = TRUE, !.handler.closed = TRUE]

\* ------------------------------------------------------------- Init
Undefined == "undefined"
Keys == <<"AWS_ACCESS_KEY_ID", "AWS_SECRET_ACCESS_KEY", "AWS_DEFAULT_REGION">>

\* A read stream over src that nobody has resumed, and the handler, frame and
\* remote store of an upload that has not begun.
NewStream(src) ==
  [unread |-> src, flowing |-> FALSE, ended |-> FALSE,
   destroyed |-> FALSE, errored |-> FALSE,
   dataL |-> {}, endL |-> {}, dropped |-> <<>>]
NewHandler == [max |-> config.MAX_BYTES, chunkList |-> <<>>, closed |-> FALSE]
NewFrame ==
  [pc |-> "init", chunk |-> Pending,
   initializationData |-> [UploadId |-> "none"], uploadId |-> "none",
   parts |-> <<>>, uploadPromises |-> <<>>, partNumber |-> 1,
   batches |-> <<>>,
   e |-> NoErr, outcome |-> [state |-> "pending", err |-> NoErr]]
NewRemote ==
  [putCalls |-> <<>>, putResult |-> "none",
   createCalls |-> 0, createResult |-> "none",
   uploadCalls |-> <<>>, status |-> <<>>, etag |-> <<>>, settled |-> <<>>,
   completeCalls |-> <<>>, completeResult |-> "none",
   abortCalls |-> <<>>, abortResult |-> "none"]

\* No second file.
NoPeer ==
  [present |-> FALSE, source |-> <<>>, stream |-> NewStream(<<>>), handler |-> NewHandler,
   pulls |-> <<>>, up |-> NewFrame, remote |-> NewRemote]

\* exec before it is called (pc "idle"), or not part of the run (pc "none").
NewExec(pc) ==
  [pc |-> pc, key |-> 0,
   envars |-> [k \in Range(Keys) |-> Undefined],
   input |-> FALSE, headCalls |-> 0, headResult |-> "none",
   streamsCreated |-> FALSE, error |-> NoErr]

NoOpts == [n |-> FALSE, nocli |-> FALSE, region |-> Undefined, max |-> <<>>]
AllSet == [k \in Range(Keys) |-> "set"]

\* The object of one upload: a source, its read stream, and a fresh handler
\* (lines 17-48).
InitObject ==
  /\ config \in [MAX_BYTES : 1..MaxChunkBytes, MAX_CONCURRENT : 1..MaxConcurrent]
  /\ stream = NewStream(source)
  /\ handler = NewHandler
  /\ pulls = <<>>
  /\ up = NewFrame
  /\ remote = NewRemote
  /\ proc = "running"

\* putS3Stream on its own: the read stream exists and
\* new ReadStreamHandler(readStream) has run: the stream is paused, and
\* nothing is accumulated.
Init ==
  /\ source \in {Bytes(n) : n \in 0..MaxSourceLen}
  /\ handlerInstalled \in BOOLEAN
  /\ InitObject
  /\ args = NoOpts
  /\ env = AllSet
  /\ exec = NewExec("none")
  /\ peer = NoPeer

\* ------------------------------------------------ event-loop turns
\* Each operator gives the worlds that one event-loop turn of its kind can
\* lead to from world w (none when the turn cannot happen in w).

\* new ReadStreamHandler(readStream) (lines 17-48).
ReadStreamHandler(w) ==
  [w EXCEPT !.handler = [max |-> config.MAX_BYTES, chunkList |-> <<>>, closed |-> FALSE],
            !.stream.flowing = FALSE]

\* putS3Stream is called: lines 222-223, up to the first await.
PutS3StreamTurns(w) ==
  IF w.proc = "running" /\ w.up.pc = "init"
  THEN {[getNextChunk(ReadStreamHandler(w)) EXCEPT !.up.pc = "pullFirst"]}
  ELSE {}

\* The flowing stream emits 'data' with the next bytes it has read. With no
\* 'data' listener attached the bytes are gone.
StreamDataTurns(w) ==
  IF w.proc = "running" /\ w.stream.flowing /\ ~w.stream.ended /\ w.stream.unread # <<>>
  THEN UNION {
         LET chunk == SubSeq(w.stream.unread, 1, k)
             w1 == [w EXCEPT !.stream.unread = SubSeq(@, k + 1, Len(@))]
         IN IF w.stream.dataL # {}
            THEN {onData(w1, id, chunk) : id \in w.stream.dataL}
            ELSE {[w1 EXCEPT !.stream.dropped = @ \o chunk]}
         : k \in 1..Min(MaxSegLen, Len(w.stream.unread))}
  ELSE {}

\* The flowing stream has nothing left and emits 'end': first the listener of
\* the constructor, then onEnd of the pending call, if any.
StreamEndTurns(w) ==
  IF w.proc = "running" /\ w.stream.flowing /\ ~w.stream.ended /\ w.stream.unread = <<>>
  THEN LET w1 == onStreamEnd([w EXCEPT !.stream.ended = TRUE])
       IN IF w.stream.endL # {}
          THEN {onEnd(w1, id) : id \in w.stream.endL}
          ELSE {w1}
  ELSE {}

\* Reading the file fails: the stream emits 'error'. No 'error' listener is
\* ever attached (lines 39-47, 115, 137), so the event is thrown as an
\* uncaught exception and ends the process.
StreamErrorTurns(w) ==
  IF /\ w.proc = "running"
     /\ ~w.stream.ended /\ ~w.stream.errored
     /\ w.up.outcome.state = "pending"
  THEN {[w EXCEPT !.stream.errored = TRUE, !.stream.destroyed = TRUE, !.proc = "crashed"]}
  ELSE {}

\* The callback of putObject (lines 201-207).
PutOk(w) == Fulfil([w EXCEPT !.remote.putResult = "ok"])
PutErr(w) == Reject([w EXCEPT !.remote.putResult = "err"], Err("putObject", 0))
PutReturnsTurns(w) ==
  IF w.proc = "running" /\ w.up.pc = "put" THEN {PutOk(w), PutErr(w)} ELSE {}

\* A createMultipartUpload awaited inside the try block: its error is caught.
CreateFailed_Caught(w) == Catch(w, Err("createMultipartUpload", 0))

\* Line 234: createMultipartUpload is awaited before the try block, so its
\* error rejects putS3Stream as it is.
CreateFailed(w) == Reject(w, Err("createMultipartUpload", 0))

\* The callback of createMultipartUpload (lines 306-309) and lines 235-242.
CreateOk(w, id) ==
  LoopBody([w EXCEPT !.remote.createResult = id,
                     !.up.initializationData = [UploadId |-> id],
                     !.up.uploadId = id,
                     !.up.parts = <<>>,
                     !.up.uploadPromises = <<>>,
                     !.up.partNumber = 1])
CreateErr(w) == CreateFailed([w EXCEPT !.remote.createResult = "err"])
CreateReturnsTurns(w) ==
  IF w.proc = "running" /\ w.up.pc = "create"
  THEN {CreateOk(w, id) : id \in UploadIds} \cup {CreateErr(w)}
  ELSE {}

\* What the settling of upload promise i does to putS3Stream: it is waiting in
\* Promise.all of the batch (line 253 or 267), or it is awaiting getNextChunk
\* (line 257) and the promise has no handler yet: then a rejection is an
\* unhandled rejection, on which bin/simplys3.js calls process.exit(1).
PartSettled(w, i) ==
  IF w.up.pc \in {"join", "finalJoin"}
  THEN IF w.remote.status[i] = "failed" THEN Catch(w, Err("uploadPart", i))
       ELSE IF ~AllOk(w, w.up.uploadPromises) THEN w
       ELSE IF w.up.pc = "join" THEN AfterBatch(w)
       ELSE Finish(ConcatBatch(w))
  ELSE IF w.up.pc = "pull" /\ w.remote.status[i] = "failed" /\ handlerInstalled
  THEN [w EXCEPT !.proc = "exited"]
  ELSE w

\* The callback of uploadPart (lines 333-336) for request i.
PartOk(w, i, tag) ==
  PartSettled([w EXCEPT !.remote.status[i] = "ok", !.remote.etag[i] = tag,
                        !.remote.settled = Append(@, i)], i)
PartErr(w, i) ==
  PartSettled([w EXCEPT !.remote.status[i] = "failed",
                        !.remote.settled = Append(@, i)], i)
PartReturnsTurns(w) ==
  IF w.proc = "running"
  THEN UNION {{PartOk(w, i, tag) : tag \in ETags} \cup {PartErr(w, i)}
              : i \in {j \in 1..Len(w.remote.uploadCalls) : w.remote.status[j] = "inflight"}}
  ELSE {}

\* The callback of abortMultipartUpload (lines 384-387) and line 282.
AbortOk(w) == Reject([w EXCEPT !.remote.abortResult = "ok"], w.up.e)
AbortErr(w) == Reject([w EXCEPT !.remote.abortResult = "err"], Err("abortMultipartUpload", 0))
AbortReturnsTurns(w) ==
  IF w.proc = "running" /\ w.up.pc = "abort" THEN {AbortOk(w), AbortErr(w)} ELSE {}

\* The callback of completeMultipartUpload (lines 361-364) and lines 287-290.
CompleteOk(w) == Fulfil([w EXCEPT !.remote.completeResult = "ok"])
CompleteErr(w) ==
  Reject([w EXCEPT !.remote.completeResult = "err"], Err("completeMultipartUpload", 0))
CompleteReturnsTurns(w) ==
  IF w.proc = "running" /\ w.up.pc = "complete" THEN {CompleteOk(w), CompleteErr(w)} ELSE {}

\* ---------------------------------------------------------- actions
\* One call of putS3Stream on its own: the turns above, on the object.
PutS3Stream == \E w \in PutS3StreamTurns(World) : Set(w)
StreamData == \E w \in StreamDataTurns(World) : Set(w)
StreamEnd == \E w \in StreamEndTurns(World) : Set(w)
StreamError == \E w \in StreamErrorTurns(World) : Set(w)
PutReturns == \E w \in PutReturnsTurns(World) : Set(w)
CreateReturns == \E w \in CreateReturnsTurns(World) : Set(w)
PartReturns == \E w \in PartReturnsTurns(World) : Set(w)
AbortReturns == \E w \in AbortReturnsTurns(World) : Set(w)
CompleteReturns == \E w \in CompleteReturnsTurns(World) : Set(w)

Next ==
  \/ PutS3Stream
  \/ StreamData
  \/ StreamEnd
  \/ StreamError
  \/ PutReturns
  \/ CreateReturns
  \/ PartReturns
  \/ AbortReturns
  \/ CompleteReturns

Spec == Init /\ [][Next]_vars

\* ------------------------------------------ the upload action: exec
\* Lines 14-18 of upload.js: the envars that getEnvars starts from.
InitialEnvars(a, e) ==
  [k \in Range(Keys) |->
     IF k = "AWS_DEFAULT_REGION" /\ a.region # Undefined THEN a.region ELSE e[k]]

\* A no-cli test that knows the long flag only.
NoCli_LongOnly(a) == a.nocli

\* Line 29: args.opts.n || args.opts.nocli
NoCli(a) == a.n \/ a.nocli

\* getEnvars from key i on (lines 20-56), up to its first await, its throw or
\* its return: a key with a value is skipped; a missing key throws in no-cli
\* mode and is asked for otherwise, on a readline interface opened for the
\* first question.
RECURSIVE getEnvars(_, _)
getEnvars(x, i) ==
  IF i > Len(Keys) THEN [x EXCEPT !.pc = "envars"]
  ELSE IF x.envars[Keys[i]] # Undefined THEN getEnvars(x, i + 1)
  ELSE IF NoCli(args) THEN [x EXCEPT !.pc = "failed", !.error = Err("Missing", i)]
  ELSE [x EXCEPT !.pc = "ask", !.key = i, !.input = TRUE]

\* Lines 106-123: with the envars in hand exec calls headS3Bucket.
AfterEnvars(x) ==
  IF x.pc = "envars" THEN [x EXCEPT !.pc = "head", !.headCalls = @ + 1] ELSE x

\* A catch that logs the failure of the head request and goes on.
HeadBucketFailed_Ignored(x) == [x EXCEPT !.headResult = "err", !.pc = "gather"]

\* Lines 122-126: headS3Bucket failed.
HeadBucketFailed(x) ==
  [x EXCEPT !.headResult = "err", !.pc = "failed", !.error = Err("BucketNotFound", 0)]

\* Lines 128-129: headS3Bucket succeeded; exec awaits the list of files.
HeadBucketOk(x) == [x EXCEPT !.headResult = "ok", !.pc = "gather"]

\* Line 159, await Promise.all(uploadPromises), given the outcomes of the
\* putS3Stream calls: exec throws the first rejection, and is done when every
\* upload has resolved.
JoinUploads(x, outcomes) ==
  IF \E o \in outcomes : o.state = "rejected"
  THEN [x EXCEPT !.pc = "failed",
                 !.error = (CHOOSE o \in outcomes : o.state = "rejected").err]
  ELSE IF \A o \in outcomes : o.state = "resolved" THEN [x EXCEPT !.pc = "done"]
  ELSE x

\* bin/simplys3.js lines 44-54: an error of exec ends the process.
Main(x, p) == IF x.pc = "failed" THEN "exited" ELSE p

PeerWorld == [stream |-> peer.stream, handler |-> peer.handler, pulls |-> peer.pulls,
              up |-> peer.up, remote |-> peer.remote, proc |-> proc]

\* The next state: the object as in world w, the second file as in world pw,
\* exec as in x, and the process as the turn and main leave it.
SetAll(w, pw, x, p) ==
  /\ stream' = w.stream
  /\ handler' = w.handler
  /\ pulls' = w.pulls
  /\ up' = w.up
  /\ remote' = w.remote
  /\ peer' = [peer EXCEPT !.stream = pw.stream, !.handler = pw.handler,
                          !.pulls = pw.pulls, !.up = pw.up, !.remote = pw.remote]
  /\ exec' = x
  /\ proc' = Main(x, p)
  /\ UNCHANGED <<config, source, handlerInstalled, args, env>>

\* The turns of an upload that has begun.
UploadTurns(w) ==
  StreamDataTurns(w) \cup StreamEndTurns(w) \cup StreamErrorTurns(w)
    \cup PutReturnsTurns(w) \cup CreateReturnsTurns(w) \cup PartReturnsTurns(w)
    \cup AbortReturnsTurns(w) \cup CompleteReturnsTurns(w)

\* main calls exec (bin/simplys3.js line 45): lines 88-106 and getEnvars.
ExecCalled ==
  /\ proc = "running"
  /\ exec.pc = "idle"
  /\ SetAll(World, PeerWorld,
            AfterEnvars(getEnvars([exec EXCEPT !.envars = InitialEnvars(args, env)], 1)),
            proc)

\* The user has answered input.ask for the key asked (line 51).
AskReturns ==
  /\ proc = "running"
  /\ exec.pc = "ask"
  /\ SetAll(World, PeerWorld,
            AfterEnvars(getEnvars([exec EXCEPT !.envars[Keys[exec.key]] = "typed"],
                                  exec.key + 1)),
            proc)

\* The callback of headBucket (s3.js lines 451-454).
HeadReturns ==
  /\ proc = "running"
  /\ exec.pc = "head"
  /\ \/ SetAll(World, PeerWorld, HeadBucketOk(exec), proc)
     \/ SetAll(World, PeerWorld, HeadBucketFailed(exec), proc)

\* The list of files is there (line 129): the read streams are created (line
\* 134), and putS3Stream is called for every file (lines 139-154) before exec
\* awaits them all (line 159).
GatherReturns ==
  /\ proc = "running"
  /\ exec.pc = "gather"
  /\ \E w \in PutS3StreamTurns(World) :
       \E pw \in (IF peer.present THEN PutS3StreamTurns(PeerWorld) ELSE {PeerWorld}) :
         SetAll(w, pw, [exec EXCEPT !.pc = "upload", !.streamsCreated = TRUE], proc)

PeerOutcomes == IF peer.present THEN {peer.up.outcome} ELSE {}

\* One turn of the upload of the file.
ObjectTurn ==
  /\ exec.pc = "upload"
  /\ \E w \in UploadTurns(World) :
       SetAll(w, PeerWorld, JoinUploads(exec, {w.up.outcome} \cup PeerOutcomes), w.proc)

\* One turn of the upload of the second file.
PeerTurn ==
  /\ exec.pc = "upload"
  /\ peer.present
  /\ \E pw \in UploadTurns(PeerWorld) :
       SetAll(World, pw, JoinUploads(exec, {pw.up.outcome, up.outcome}), pw.proc)

\* The upload action run by bin/simplys3.js on a directory of one file.
InitExec ==
  /\ source \in {Bytes(n) : n \in 0..ExecMaxSourceLen}
  /\ handlerInstalled = TRUE
  /\ InitObject
  /\ args \in [n : BOOLEAN, nocli : BOOLEAN, region : {Undefined, "r"},
               max : {<<>>} \cup {<<m>> : m \in 1..MaxChunkBytes}]
  /\ env \in [Range(Keys) -> {Undefined, "set"}]
  /\ exec = NewExec("idle")
  /\ peer = NoPeer

NextExec ==
  \/ ExecCalled
  \/ AskReturns
  \/ HeadReturns
  \/ GatherReturns
  \/ ObjectTurn

SpecExec == InitExec /\ [][NextExec]_vars

\* The upload action on a directory of two files, with the envars defined.
InitPair ==
  /\ source \in {Bytes(n) : n \in 0..ExecMaxSourceLen}
  /\ handlerInstalled = TRUE
  /\ InitObject
  /\ args = NoOpts
  /\ env = AllSet
  /\ exec = NewExec("idle")
  /\ \E n \in 0..ExecMaxSourceLen :
       peer = [NoPeer EXCEPT !.present = TRUE, !.source = Bytes(n),
                             !.stream = NewStream(Bytes(n))]

NextPair ==
  \/ ExecCalled
  \/ HeadReturns
  \/ GatherReturns
  \/ ObjectTurn
  \/ PeerTurn

SpecPair == InitPair /\ [][NextPair]_vars

\* ------------------------------- ReadStreamHandler with its own caller
\* A caller other than putS3Stream calls getNextChunk (lines 66-141), one call
\* after the other, and goes on calling after a null.
GetNextChunkCalled ==
  /\ proc = "running"
  /\ \A i \in 1..Len(pulls) : pulls[i] # Pending
  /\ Len(pulls) < MaxPulls
  /\ Set(getNextChunk(World))

\* new ReadStreamHandler(readStream) has run on a stream that reads without
\* error; putS3Stream is not called.
InitPull ==
  /\ source \in {Bytes(n) : n \in 0..MaxSourceLen}
  /\ handlerInstalled = FALSE
  /\ InitObject
  /\ args = NoOpts
  /\ env = AllSet
  /\ exec = NewExec("none")
  /\ peer = NoPeer

NextPull ==
  \/ GetNextChunkCalled
  \/ StreamData
  \/ StreamEnd

\* The stream delivers its 'data' events and then 'end'.
SpecPull == InitPull /\ [][NextPull]_vars /\ WF_vars(StreamData) /\ WF_vars(StreamEnd)

\* ------------------------------------------------------------ claims
\* The chunks that getNextChunk calls have returned so far, in call order.
RECURSIVE ConcatChunks(_)
ConcatChunks(ps) ==
  IF ps = <<>> THEN <<>>
  ELSE (IF Head(ps).kind = "chunk" THEN Head(ps).bytes ELSE <<>>) \o ConcatChunks(Tail(ps))

NullReturned == \E i \in 1..Len(pulls) : pulls[i] = Null
FirstPullReturned == Len(pulls) >= 1 /\ pulls[1] # Pending
SessionOpen == remote.createResult \in UploadIds
SomePartFailed == \E i \in 1..Len(remote.status) : remote.status[i] = "failed"
Rejected(e) == [state |-> "rejected", err |-> e]

\* C1 (as claimed): once getNextChunk has returned null, the chunks returned
\* before it, concatenated in call order, are exactly the source bytes.
C1_RoundTrip == NullReturned => ConcatChunks(pulls) = source

\* C2: every chunk returned by getNextChunk has between 1 and max bytes, and
\* every chunk that is followed by another chunk has exactly max bytes; so no
\* chunk is empty, and what follows the last full chunk of a source that is a
\* multiple of max is null.
C2_ChunkSizes ==
  \A i \in 1..Len(pulls) :
    pulls[i].kind = "chunk" =>
      /\ Len(pulls[i].bytes) >= 1
      /\ Len(pulls[i].bytes) <= handler.max
      /\ (\E j \in (i + 1)..Len(pulls) : pulls[j].kind = "chunk")
           => Len(pulls[i].bytes) = handler.max

\* A source of two full chunks and a shorter rest, split and then ended by null.
C2_Witness ==
  /\ Len(pulls) = 4
  /\ Len(pulls[1].bytes) = handler.max /\ pulls[1].kind = "chunk"
  /\ Len(pulls[2].bytes) = handler.max /\ pulls[2].kind = "chunk"
  /\ pulls[3].kind = "chunk" /\ Len(pulls[3].bytes) < handler.max
  /\ pulls[4] = Null

\* C3 (as claimed): when an uploadPart call has failed and putS3Stream is over,
\* abortMultipartUpload was called exactly once, with the upload id of the
\* session, and putS3Stream rejected with the error of a failed part.
C3_AbortOnceOriginalError ==
  (SomePartFailed /\ (up.pc = "done" \/ proc = "exited")) =>
    /\ remote.abortCalls = <<remote.createResult>>
    /\ up.outcome.state = "rejected"
    /\ up.outcome.err.op = "uploadPart"
    /\ remote.status[up.outcome.err.n] = "failed"

\* The request that was dispatched with part number k.
CallOfPart(k) == CHOOSE c \in 1..Len(remote.uploadCalls) : remote.uploadCalls[c].PartNumber = k

\* C4: completeMultipartUpload receives one record per uploadPart call, with
\* PartNumber 1..N ascending, and record k carries the ETag the remote store
\* returned for the uploadPart call that was dispatched with part number k,
\* whose body was the k-th chunk pulled.
C4_FinalizeOrderedComplete ==
  \A c \in 1..Len(remote.completeCalls) :
    LET P == remote.completeCalls[c].Parts
        N == Len(remote.uploadCalls)
    IN /\ Len(P) = N
       /\ \A k \in 1..N :
            /\ P[k].PartNumber = k
            /\ \E d \in 1..N : remote.uploadCalls[d].PartNumber = k
            /\ P[k].ETag = remote.etag[CallOfPart(k)]
            /\ remote.uploadCalls[CallOfPart(k)].Body = pulls[k].bytes
            /\ pulls[k].kind = "chunk"

\* A finalize of three parts or more whose requests finished out of dispatch
\* order and did not all return the same ETag.
C4_Witness ==
  /\ Len(remote.completeCalls) = 1
  /\ Len(remote.completeCalls[1].Parts) >= 3
  /\ \E i, j \in 1..Len(remote.settled) : i < j /\ remote.settled[i] > remote.settled[j]
  /\ \E i, j \in 1..Len(remote.etag) : remote.etag[i] # remote.etag[j]

C6_ExactBoundarySingleShot ==
  (Len(source) = handler.max /\ FirstPullReturned) =>
    /\ pulls[1] = Chunk(source)
    /\ remote.putCalls = <<source>>
    /\ remote.createCalls = 0

\* C7 (as claimed): for an empty source the first pull gives null, and
\* putS3Stream then issues one putObject with an empty body, opens no session,
\* and raises no error of its own.
C7_EmptySource ==
  (Len(source) = 0 /\ FirstPullReturned) =>
    /\ pulls[1] = Null
    /\ remote.putCalls = << <<>> >>
    /\ remote.createCalls = 0
    /\ up.outcome.state = "rejected" => up.outcome.err = Err("putObject", 0)

\* C8 (as claimed): when abortMultipartUpload itself fails, putS3Stream still
\* rejects with the part-upload error that it caught.
C8_AbortFailureKeepsOriginal ==
  (remote.abortResult = "err" /\ up.pc = "done") =>
    /\ up.e.op = "uploadPart"
    /\ up.outcome = Rejected(up.e)

\* C9 (as claimed): once the stream has signalled a read error and nothing
\* more can happen, putS3Stream has rejected with that error, an opened
\* session has been aborted, and nothing was finalized.
C9_StreamErrorRejects ==
  (stream.errored /\ proc # "running") =>
    /\ up.outcome = Rejected(Err("stream", 0))
    /\ SessionOpen => remote.abortCalls # <<>>
    /\ remote.completeCalls = <<>>

\* C10 (as claimed): when putS3Stream is over and every remote call has
\* returned, a session that was created has been finalized by a successful
\* completeMultipartUpload or has had abortMultipartUpload called on it.
C10_NoOrphanedSession ==
  (up.pc = "done" /\ SessionOpen) =>
    \/ remote.completeResult = "ok"
    \/ remote.abortCalls # <<>>

NoPullPending == \A i \in 1..Len(pulls) : pulls[i] # Pending
InFlight == {i \in 1..Len(remote.status) : remote.status[i] = "inflight"}

\* The batch that the c-th uploadPart request belongs to, counting from 0.
BatchOf(c) == (c - 1) \div config.MAX_CONCURRENT

\* C11: at most MAX_CONCURRENT uploadPart requests are in flight; while a full
\* batch has not been cleared no getNextChunk call is pending; a request is
\* dispatched only when every request of the earlier batches has resolved; and
\* the arrays joined by Promise.all are the requests in dispatch order, cut
\* into batches of MAX_CONCURRENT with only the last one possibly shorter, so
\* that N parts are finalized after ceil(N / MAX_CONCURRENT) batches.
C11_BoundedBatches ==
  /\ Cardinality(InFlight) <= config.MAX_CONCURRENT
  /\ Len(up.uploadPromises) <= config.MAX_CONCURRENT
  /\ Len(up.uploadPromises) = config.MAX_CONCURRENT => NoPullPending
  /\ \A i, j \in 1..Len(remote.uploadCalls) :
       BatchOf(i) < BatchOf(j) => remote.status[i] = "ok"
  /\ \A b \in 1..Len(up.batches) :
       /\ Len(up.batches[b]) >= 1
       /\ Len(up.batches[b]) <= config.MAX_CONCURRENT
       /\ b < Len(up.batches) => Len(up.batches[b]) = config.MAX_CONCURRENT
       /\ \A k \in 1..Len(up.batches[b]) :
            up.batches[b][k] = (b - 1) * config.MAX_CONCURRENT + k
  /\ remote.completeCalls # <<>> =>
       Len(up.batches) =
         (Len(remote.uploadCalls) + config.MAX_CONCURRENT - 1) \div config.MAX_CONCURRENT

\* Five parts finalized with MAX_CONCURRENT = 2: batches of 2, 2 and 1.
C11_Witness ==
  /\ config.MAX_CONCURRENT = 2
  /\ remote.completeCalls # <<>>
  /\ Len(remote.uploadCalls) = 5
  /\ Len(up.batches) = 3
  /\ Len(up.batches[1]) = 2 /\ Len(up.batches[2]) = 2 /\ Len(up.batches[3]) = 1

\* C15 (as claimed): whenever no getNextChunk call is pending the stream is
\* not consuming (it is paused, or it has ended), and no byte was ever emitted
\* with no listener attached.
C15_StreamHeldBetweenPulls ==
  /\ NoPullPending => (~stream.flowing \/ stream.ended)
  /\ stream.dropped = <<>>

\* C16 (as claimed): the process never ends on a failed part with the session
\* neither aborted nor finalized, and the part's error reaches the caller of
\* putS3Stream.
C16_FailureWhilePullingAborts ==
  (proc = "exited" /\ SessionOpen) =>
    /\ remote.abortCalls # <<>> \/ remote.completeResult = "ok"
    /\ up.outcome.state = "rejected"

\* C17: the k-th uploadPart request carries PartNumber k, the upload id that
\* createMultipartUpload returned, and the k-th chunk that getNextChunk gave.
C17_PartNumbersAtDispatch ==
  \A c \in 1..Len(remote.uploadCalls) :
    /\ remote.uploadCalls[c].PartNumber = c
    /\ remote.uploadCalls[c].UploadId = remote.createResult
    /\ remote.createResult \in UploadIds
    /\ pulls[c].kind = "chunk"
    /\ remote.uploadCalls[c].Body = pulls[c].bytes

\* A part dispatched in a second batch, after the parts of the first batch had
\* finished in the reverse of their dispatch order.
C17_Witness ==
  /\ config.MAX_CONCURRENT = 2
  /\ Len(remote.uploadCalls) >= 3
  /\ Len(remote.settled) >= 2
  /\ remote.settled[1] = 2 /\ remote.settled[2] = 1

\* C18: with no getNextChunk call pending the accumulation buffer holds less
\* than max bytes; and every source byte is in exactly one place: a returned
\* chunk, the accumulation buffer, the stream (unread or handed back), or, when
\* it was emitted with no listener, the dropped bytes. With nothing dropped the
\* three first, in that order, are the source.
C18_AccumulationBuffer ==
  LET kept == ConcatChunks(pulls) \o BufferConcat(handler.chunkList) \o stream.unread
  IN /\ NoPullPending => currentChunkSize(handler) < handler.max
     /\ Len(kept) + Len(stream.dropped) = Len(source)
     /\ Range(kept) \cup Range(stream.dropped) = Range(source)
     /\ stream.dropped = <<>> => kept = source

\* The first pull was resolved by the over-size split: the stream is paused and
\* holds the bytes beyond the boundary, while putS3Stream awaits
\* createMultipartUpload.
C18_Witness ==
  /\ up.pc = "create"
  /\ NoPullPending
  /\ ~stream.flowing
  /\ handler.chunkList = <<>>
  /\ stream.unread # <<>>
  /\ Len(pulls[1].bytes) = handler.max
  /\ Len(stream.unread) + handler.max = Len(source)

\* C19: when createMultipartUpload has failed, putS3Stream has rejected with
\* its error and no uploadPart, completeMultipartUpload or abortMultipartUpload
\* request exists; and uploadPart requests exist only once a session id was
\* returned.
C19_SessionOpenFailure ==
  /\ remote.createResult = "err" =>
       /\ up.outcome = Rejected(Err("createMultipartUpload", 0))
       /\ remote.uploadCalls = <<>>
       /\ remote.completeCalls = <<>>
       /\ remote.abortCalls = <<>>
  /\ remote.uploadCalls # <<>> => SessionOpen
  /\ up.pc = "create" => remote.uploadCalls = <<>>

\* createMultipartUpload has failed and putS3Stream is over.
C19_Witness ==
  /\ remote.createResult = "err"
  /\ remote.createCalls = 1
  /\ up.pc = "done"

\* Some request of an upload has reached the remote store.
AnyUploadCall(rem) ==
  \/ rem.putCalls # <<>>
  \/ rem.createCalls > 0
  \/ rem.uploadCalls # <<>>
  \/ rem.completeCalls # <<>>
  \/ rem.abortCalls # <<>>

\* C12: when the head-bucket check has failed, exec has failed with the
\* "cannot be found or accessed" error, no read stream was created,
\* putS3Stream was not called and no upload request was issued; and streams,
\* putS3Stream and upload requests exist only after a successful head-bucket.
C12_BucketPrecondition ==
  /\ exec.headResult = "err" =>
       /\ exec.pc = "failed"
       /\ exec.error = Err("BucketNotFound", 0)
       /\ ~exec.streamsCreated
       /\ up.pc = "init"
       /\ ~AnyUploadCall(remote)
  /\ (exec.streamsCreated \/ up.pc # "init" \/ AnyUploadCall(remote)) =>
       exec.headResult = "ok"

\* The head-bucket check has failed and exec is over.
C12_Witness ==
  /\ exec.headCalls = 1
  /\ exec.headResult = "err"
  /\ exec.pc = "failed"

\* C13 (as claimed): the maximum that the upload uses, as threshold and as part
\* size, is the value of --max when the option is given, and MAX_BYTES when it
\* is not.
C13_MaxOptionSetsThreshold ==
  up.pc # "init" =>
    handler.max = (IF args.max = <<>> THEN config.MAX_BYTES ELSE args.max[1])

\* The keys that have no value when getEnvars starts.
MissingKeys == {i \in 1..Len(Keys) : InitialEnvars(args, env)[Keys[i]] = Undefined}

\* C14: with -n or --nocli given and one of the three values undefined, exec,
\* once called, has failed with the "Missing ... envar" error for the first
\* such key, no prompt was ever opened, and no request has reached the remote
\* store.
C14_NoCliFailsWithoutPrompt ==
  ((args.n \/ args.nocli) /\ MissingKeys # {} /\ exec.pc # "idle") =>
    /\ exec.pc = "failed"
    /\ exec.error.op = "Missing"
    /\ exec.error.n \in MissingKeys
    /\ \A i \in MissingKeys : exec.error.n <= i
    /\ ~exec.input
    /\ exec.headCalls = 0
    /\ ~exec.streamsCreated
    /\ up.pc = "init"
    /\ ~AnyUploadCall(remote)

\* -n alone, the access key defined and the secret key not: exec has failed
\* on the secret key.
C14_Witness ==
  /\ args.n /\ ~args.nocli
  /\ env["AWS_ACCESS_KEY_ID"] # Undefined
  /\ env["AWS_SECRET_ACCESS_KEY"] = Undefined
  /\ exec.pc = "failed"
  /\ exec.error = Err("Missing", 2)

\* The part numbers and upload ids of the requests of one upload are its own.
OwnParts(rem) ==
  \A c \in 1..Len(rem.uploadCalls) :
    /\ rem.uploadCalls[c].PartNumber = c
    /\ rem.uploadCalls[c].UploadId = rem.createResult

\* The session of an upload, if one was created, has been finalized or has
\* had abort called on it.
SessionClosed(rem) ==
  rem.createResult \in UploadIds =>
    (rem.completeResult = "ok" \/ rem.abortCalls # <<>>)

\* C20 (as claimed): with two files uploaded at the same time, the requests of
\* each upload carry its own part numbers and upload id, and once one upload
\* has failed and nothing more can happen, the session of the other one has
\* been finalized or aborted.
C20_IndependentUploads ==
  /\ OwnParts(remote) /\ OwnParts(peer.remote)
  /\ (up.outcome.state = "rejected" /\ proc # "running") => SessionClosed(peer.remote)
  /\ (peer.up.outcome.state = "rejected" /\ proc # "running") => SessionClosed(remote)

\* Once a call has returned null, every later call has returned null.
StickyNull ==
  \A i \in 1..Len(pulls) : \A j \in i..Len(pulls) :
    pulls[i] = Null => pulls[j] = Null

\* Call i of getNextChunk has been made and has not resolved; has resolved.
PendingAt(i) == i <= Len(pulls) /\ pulls[i] = Pending
ResolvedAt(i) == i <= Len(pulls) /\ pulls[i] # Pending

\* C21: with a stream that delivers its 'data' events and then 'end', every
\* getNextChunk call that is pending is resolved in the end, a call made
\* after 'end' included; and after a call has returned null every later call
\* returns null, and no chunk.
C21_PullsResolveNullSticky ==
  /\ []StickyNull
  /\ \A i \in 1..MaxPulls : PendingAt(i) ~> ResolvedAt(i)

\* A call has returned chunks, a later one null, and a call made after that
\* one, with the stream at its end and no call pending, has returned null.
C21_Witness ==
  /\ Len(pulls) >= 3
  /\ pulls[1].kind = "chunk"
  /\ pulls[Len(pulls) - 1] = Null
  /\ pulls[Len(pulls)] = Null
  /\ stream.ended

\* C22: completeMultipartUpload and abortMultipartUpload are each called at
\* most once and never both; when completeMultipartUpload has been called, a
\* getNextChunk call has returned null and every uploadPart request has
\* resolved, none of them with a failure.
C22_SessionClosedOnce ==
  /\ Len(remote.completeCalls) <= 1
  /\ Len(remote.abortCalls) <= 1
  /\ ~(remote.completeCalls # <<>> /\ remote.abortCalls # <<>>)
  /\ remote.completeCalls # <<>> =>
       /\ NullReturned
       /\ \A i \in 1..Len(remote.uploadCalls) : remote.status[i] = "ok"

\* completeMultipartUpload has been called for a session of three parts or
\* more, in more than one batch.
C22_Witness ==
  /\ Len(remote.completeCalls) = 1
  /\ Len(remote.uploadCalls) >= 3
  /\ Len(up.batches) >= 2
  /\ remote.abortCalls = <<>>

\* C23: at most one call has its onData and onEnd attached, that call is the
\* pending one, and a call that has resolved has neither attached.
C23_ListenerHygiene ==
  /\ Cardinality(stream.dataL) <= 1
  /\ Cardinality(stream.endL) <= 1
  /\ stream.dataL = stream.endL
  /\ \A id \in stream.dataL \cup stream.endL : PendingAt(id)
  /\ \A i \in 1..Len(pulls) :
       pulls[i] # Pending => i \notin stream.dataL \cup stream.endL

\* With a maximum of 2 and a source of 5 bytes: two calls have resolved with a
\* chunk, the third by 'end' with the last byte, and no listener is left.
C23_Witness ==
  /\ config.MAX_BYTES = 2
  /\ Len(pulls) >= 3
  /\ pulls[1].kind = "chunk" /\ pulls[2].kind = "chunk"
  /\ Len(pulls[3].bytes) = 1
  /\ Len(source) = 5
  /\ stream.ended
  /\ stream.dataL = {} /\ stream.endL = {}

====
